---- MODULE Spec2Model ----
(***************************************************************************)
(* A model of rust-tuyapi: the frame codec (MessageParser), the payload    *)
(* cipher (TuyaCipher), version parsing, key verification.                 *)
(*                                                                         *)
(* Bytes are the integers 0..255 and byte strings are sequences of bytes.  *)
(* Option<T> is a sequence of length 0 (None) or 1 (Some).                 *)
(***************************************************************************)
EXTENDS Integers, Sequences, FiniteSets, TLC

(***************************************************************************)
(* Byte-level helpers                                                      *)
(***************************************************************************)
None == <<>>

Some(x) == <<x>>

IsSome(o) == Len(o) = 1

Unwrap(o) == o[1]

Take(s, n) == SubSeq(s, 1, n)

Drop(s, n) == SubSeq(s, n + 1, Len(s))

RECURSIVE Repeat(_, _)
Repeat(b, n) == IF n = 0 THEN <<>> ELSE <<b>> \o Repeat(b, n - 1)

RECURSIVE Concat(_)
Concat(ss) == IF ss = <<>> THEN <<>> ELSE Head(ss) \o Concat(Tail(ss))

RECURSIVE Sum(_)
Sum(s) == IF s = <<>> THEN 0 ELSE Head(s) + Sum(Tail(s))

\* u32::to_be_bytes, for the values below 2^31 that TLC's integers hold
ToBeBytes(n) ==
    << (n \div 16777216) % 256, (n \div 65536) % 256, (n \div 256) % 256, n % 256 >>

\* u32::from_be_bytes / nom's be_u32 on four bytes, for values below 2^31
FromBeBytes(s) == ((((((s[1] * 256) + s[2]) * 256) + s[3]) * 256) + s[4])

\* Bitwise exclusive or of two naturals
RECURSIVE Xor(_, _)
Xor(a, b) ==
    IF a = 0 THEN b
    ELSE IF b = 0 THEN a
    ELSE (((a % 2) + (b % 2)) % 2) + (2 * Xor(a \div 2, b \div 2))

\* Bytewise exclusive or of two 32-bit words
XorBytes(x, y) == << Xor(x[1], y[1]), Xor(x[2], y[2]), Xor(x[3], y[3]), Xor(x[4], y[4]) >>

(***************************************************************************)
(* crc.rs: CRC-32 (crc32fast::hash), IEEE 802.3: reflected polynomial      *)
(* EDB88320, initial value and final exclusive or FFFFFFFF.  A 32-bit      *)
(* word is kept as its four big-endian bytes, so that no value exceeds     *)
(* the integers of the checker; crc(s) is therefore crc(s).to_be_bytes().  *)
(***************************************************************************)
\* One step of the bitwise algorithm on the word w: shift right by one bit
\* and, when the bit shifted out is set, exclusive or with the polynomial.
CrcShift(w) ==
    LET sh == << w[1] \div 2,
                 ((w[1] % 2) * 128) + (w[2] \div 2),
                 ((w[2] % 2) * 128) + (w[3] \div 2),
                 ((w[3] % 2) * 128) + (w[4] \div 2) >>
    IN  IF w[4] % 2 = 1 THEN XorBytes(sh, << 237, 184, 131, 32 >>) ELSE sh

RECURSIVE CrcEntry(_, _)
CrcEntry(w, k) == IF k = 0 THEN w ELSE CrcEntry(CrcShift(w), k - 1)

CrcTable == [n \in 0..255 |-> CrcEntry(<< 0, 0, 0, n >>, 8)]

RECURSIVE CrcFold(_, _, _)
CrcFold(s, i, w) ==
    IF i > Len(s) \/ Len(w) # 4 THEN w
    ELSE CrcFold(s, i + 1,
                 XorBytes(CrcTable[Xor(w[4], s[i])], << 0, w[1], w[2], w[3] >>))

crc(s) == XorBytes(CrcFold(s, 1, << 255, 255, 255, 255 >>), << 255, 255, 255, 255 >>)

(***************************************************************************)
(* base64::engine::general_purpose::STANDARD (used by cipher.rs).          *)
(* The alphabet is A-Z a-z 0-9 + /, the pad character is '='.              *)
(***************************************************************************)
B64Char(v) ==
    IF v < 26 THEN 65 + v
    ELSE IF v < 52 THEN 97 + (v - 26)
    ELSE IF v < 62 THEN 48 + (v - 52)
    ELSE IF v = 62 THEN 43
    ELSE 47

\* The 6-bit value of an alphabet character, -1 for any other byte.
B64Val(c) ==
    IF c >= 65 /\ c <= 90 THEN c - 65
    ELSE IF c >= 97 /\ c <= 122 THEN (c - 97) + 26
    ELSE IF c >= 48 /\ c <= 57 THEN (c - 48) + 52
    ELSE IF c = 43 THEN 62
    ELSE IF c = 47 THEN 63
    ELSE -1

RECURSIVE Base64Encode(_)
Base64Encode(s) ==
    IF Len(s) = 0 THEN <<>>
    ELSE IF Len(s) = 1 THEN
        << B64Char(s[1] \div 4), B64Char((s[1] % 4) * 16), 61, 61 >>
    ELSE IF Len(s) = 2 THEN
        << B64Char(s[1] \div 4), B64Char(((s[1] % 4) * 16) + (s[2] \div 16)),
           B64Char((s[2] % 16) * 4), 61 >>
    ELSE
        << B64Char(s[1] \div 4), B64Char(((s[1] % 4) * 16) + (s[2] \div 16)),
           B64Char(((s[2] % 16) * 4) + (s[3] \div 64)), B64Char(s[3] % 64) >>
        \o Base64Encode(Drop(s, 3))

\* Decoding of one 4-character group from the 6-bit values a, b, c, d of
\* its characters; last is TRUE for the final group, the only one that may
\* carry padding.  STANDARD requires canonical padding and rejects non-zero
\* trailing bits.
B64Quad(g, last, a, b, c, d) ==
    IF a < 0 \/ b < 0 THEN [ok |-> FALSE, val |-> <<>>]
    ELSE IF last /\ g[3] = 61 /\ g[4] = 61 THEN
        IF b % 16 = 0 THEN [ok |-> TRUE, val |-> << (a * 4) + (b \div 16) >>]
        ELSE [ok |-> FALSE, val |-> <<>>]
    ELSE IF c < 0 THEN [ok |-> FALSE, val |-> <<>>]
    ELSE IF last /\ g[4] = 61 THEN
        IF c % 4 = 0
        THEN [ok |-> TRUE,
              val |-> << (a * 4) + (b \div 16), ((b % 16) * 16) + (c \div 4) >>]
        ELSE [ok |-> FALSE, val |-> <<>>]
    ELSE IF d < 0 THEN [ok |-> FALSE, val |-> <<>>]
    ELSE [ok |-> TRUE,
          val |-> << (a * 4) + (b \div 16), ((b % 16) * 16) + (c \div 4),
                     ((c % 4) * 64) + d >>]

B64Group(g, last) ==
    B64Quad(g, last, B64Val(g[1]), B64Val(g[2]), B64Val(g[3]), B64Val(g[4]))

\* The decoding of a group followed by the decoding of the rest
B64Join(g, r) ==
    IF g.ok /\ r.ok THEN [ok |-> TRUE, val |-> g.val \o r.val]
    ELSE [ok |-> FALSE, val |-> <<>>]

RECURSIVE Base64Decode(_)
Base64Decode(s) ==
    IF Len(s) = 0 THEN [ok |-> TRUE, val |-> <<>>]
    ELSE IF Len(s) < 4 THEN [ok |-> FALSE, val |-> <<>>]
    ELSE B64Join(B64Group(Take(s, 4), Len(s) = 4), Base64Decode(Drop(s, 4)))

(***************************************************************************)
(* std::str::from_utf8: the well-formed byte sequences of Unicode          *)
(* Table 3-7.                                                              *)
(***************************************************************************)
IsCont(b) == b >= 128 /\ b <= 191

RECURSIVE IsUtf8(_)
IsUtf8(s) ==
    IF Len(s) = 0 THEN TRUE
    ELSE IF s[1] < 128 THEN IsUtf8(Drop(s, 1))
    ELSE IF s[1] >= 194 /\ s[1] <= 223 THEN
        Len(s) >= 2 /\ IsCont(s[2]) /\ IsUtf8(Drop(s, 2))
    ELSE IF s[1] >= 224 /\ s[1] <= 239 THEN
        /\ Len(s) >= 3
        /\ IsCont(s[2])
        /\ IsCont(s[3])
        /\ (s[1] = 224 => s[2] >= 160)
        /\ (s[1] = 237 => s[2] <= 159)
        /\ IsUtf8(Drop(s, 3))
    ELSE IF s[1] >= 240 /\ s[1] <= 244 THEN
        /\ Len(s) >= 4
        /\ IsCont(s[2])
        /\ IsCont(s[3])
        /\ IsCont(s[4])
        /\ (s[1] = 240 => s[2] >= 144)
        /\ (s[1] = 244 => s[2] <= 143)
        /\ IsUtf8(Drop(s, 4))
    ELSE FALSE

(***************************************************************************)
(* Results.  kind is "Ok", "Err" (a value of error.rs's ErrorKind, named   *)
(* in err) or "Panic" (the call aborts: an out-of-range split or an        *)
(* arithmetic overflow).  val is the value of an Ok result.                *)
(***************************************************************************)
Ok(v) == [kind |-> "Ok", err |-> "", val |-> v]

Err(e) == [kind |-> "Err", err |-> e, val |-> <<>>]

Panic == [kind |-> "Panic", err |-> "", val |-> <<>>]

(***************************************************************************)
(* mesparse.rs: TuyaVersion                                                *)
(***************************************************************************)
ThreeOne == "ThreeOne"

ThreeThree == "ThreeThree"

TuyaVersion == {ThreeOne, ThreeThree}

\* TuyaVersion::as_bytes: b"3.1" or b"3.3"
as_bytes(version) == IF version = ThreeOne THEN << 51, 46, 49 >> ELSE << 51, 46, 51 >>

(***************************************************************************)
(* The external primitives of cipher.rs.                                   *)
(*                                                                         *)
(* openssl's AES-128 is modelled as what a block cipher is: for each key   *)
(* a permutation of the 16-byte blocks (here: bytewise addition of the     *)
(* key modulo 256), applied block by block (ECB) to the PKCS#7-padded      *)
(* input.  md5::compute is modelled as a fixed function from byte strings  *)
(* to 16-byte digests.                                                     *)
(***************************************************************************)
AesBlockSize == 16

AesBlockEncrypt(key, blk) ==
    [i \in 1..AesBlockSize |-> (blk[i] + key[i]) % 256]

AesBlockDecrypt(key, blk) ==
    [i \in 1..AesBlockSize |-> ((blk[i] + 256) - key[i]) % 256]

RECURSIVE EcbMap(_, _, _)
EcbMap(key, data, enc) ==
    IF Len(data) = 0 THEN <<>>
    ELSE (IF enc THEN AesBlockEncrypt(key, Take(data, AesBlockSize))
                 ELSE AesBlockDecrypt(key, Take(data, AesBlockSize)))
         \o EcbMap(key, Drop(data, AesBlockSize), enc)

Pkcs7Pad(data) ==
    LET n == AesBlockSize - (Len(data) % AesBlockSize)
    IN  data \o [i \in 1..n |-> n]

\* The padding length of a decrypted final block, 0 when the padding is bad.
Pkcs7PadLen(plain) ==
    IF /\ plain[Len(plain)] >= 1
       /\ plain[Len(plain)] <= AesBlockSize
       /\ \A i \in (Len(plain) - plain[Len(plain)] + 1)..Len(plain) :
              plain[i] = plain[Len(plain)]
    THEN plain[Len(plain)]
    ELSE 0

\* The plaintext without its n bytes of padding
Pkcs7Strip(plain, n) ==
    IF n = 0 THEN Err("DecryptionError") ELSE Ok(Take(plain, Len(plain) - n))

Pkcs7Unpad(plain) == Pkcs7Strip(plain, Pkcs7PadLen(plain))

\* openssl::symm::encrypt(Cipher::aes_128_ecb(), key, None, data)
symm_encrypt(key, data) ==
    IF Len(key) # AesBlockSize THEN Err("EncryptionError")
    ELSE Ok(EcbMap(key, Pkcs7Pad(data), TRUE))

\* openssl::symm::decrypt(Cipher::aes_128_ecb(), key, None, data): an input
\* that is empty or not a whole number of blocks, or whose last block does
\* not end in PKCS#7 padding, is an error.
symm_decrypt(key, data) ==
    IF Len(key) # AesBlockSize \/ Len(data) = 0 \/ Len(data) % AesBlockSize # 0
    THEN Err("DecryptionError")
    ELSE Pkcs7Unpad(EcbMap(key, data, FALSE))

\* md5::compute(data).0
md5_compute(data) ==
    LET s == Sum(data) % 256
        l == Len(data) % 256
    IN  [i \in 1..16 |-> ((s * ((2 * i) + 1)) + (l * i) + (31 * i)) % 256]

(***************************************************************************)
(* cipher.rs: TuyaCipher {key, version}                                    *)
(***************************************************************************)
HeaderLenThreeOne == 19

HeaderLenThreeThree == 15

\* maybe_strip_header: split_at panics when the data is shorter than the
\* header; the result is then Panic.
maybe_strip_header(version, data) ==
    IF Len(data) > 3 /\ Take(data, 3) = as_bytes(version) THEN
        LET n == IF version = ThreeOne THEN HeaderLenThreeOne ELSE HeaderLenThreeThree
        IN  IF Len(data) < n THEN Panic ELSE Ok(Drop(data, n))
    ELSE Ok(data)

\* TuyaCipher::create
TuyaCipher_create(key, version) == [key |-> key, version |-> version]

\* TuyaCipher::encrypt, from the result res of openssl's encrypt
encrypt_wrap(version, res) ==
    IF res.kind # "Ok" THEN res
    ELSE IF version = ThreeOne THEN Ok(Base64Encode(res.val))
    ELSE Ok(res.val)

\* TuyaCipher::encrypt
TuyaCipher_encrypt(cipher, data) ==
    encrypt_wrap(cipher.version, symm_encrypt(cipher.key, data))

\* TuyaCipher::decrypt, from the base64-decoded data of version 3.1
decrypt_decoded(cipher, dec) ==
    IF ~dec.ok THEN Err("Base64DecodeError") ELSE symm_decrypt(cipher.key, dec.val)

\* TuyaCipher::decrypt, from the result of maybe_strip_header
decrypt_stripped(cipher, stripped) ==
    IF stripped.kind # "Ok" THEN stripped
    ELSE IF cipher.version = ThreeOne
        THEN decrypt_decoded(cipher, Base64Decode(stripped.val))
    ELSE symm_decrypt(cipher.key, stripped.val)

\* TuyaCipher::decrypt
TuyaCipher_decrypt(cipher, data) ==
    decrypt_stripped(cipher, maybe_strip_header(cipher.version, data))

\* TuyaCipher::md5: bytes [4..16] of the digest of
\* "data=" payload "||lpv=" version "||" key
TuyaCipher_md5(cipher, payload) ==
    LET hash_line == << 100, 97, 116, 97, 61 >> \o payload
                     \o << 124, 124, 108, 112, 118, 61 >> \o as_bytes(cipher.version)
                     \o << 124, 124 >> \o cipher.key
    IN  SubSeq(md5_compute(hash_line), 5, 16)

(***************************************************************************)
(* lib.rs: Payload and PayloadStruct                                       *)
(*                                                                         *)
(* A PayloadStruct is [dev_id, gw_id, uid, t, dps]: dev_id a string,       *)
(* gw_id and uid optional strings, t an optional u32 and dps a map, kept   *)
(* as a sequence of << key, JSON text of the value >> with at most one     *)
(* entry (the order of a larger HashMap is not fixed).                     *)
(* A Payload is [tag, text, st]: the String variant holds its bytes in     *)
(* text, the Struct variant its PayloadStruct in st.                       *)
(***************************************************************************)
NoStruct == [dev_id |-> <<>>, gw_id |-> None, uid |-> None, t |-> None, dps |-> <<>>]

PayloadString(s) == [tag |-> "String", text |-> s, st |-> NoStruct]

PayloadStructOf(p) == [tag |-> "Struct", text |-> <<>>, st |-> p]

\* The decimal digits of a natural number, as serde_json writes a u32
RECURSIVE Decimal(_)
Decimal(n) == IF n < 10 THEN << 48 + n >> ELSE Decimal(n \div 10) \o << 48 + (n % 10) >>

\* "name":"value" for a string field
JsonStringField(name, value) == << 34 >> \o name \o << 34, 58, 34 >> \o value \o << 34 >>

\* serde_json::to_vec(&PayloadStruct): the fields in declaration order under
\* their serde names, an absent gwId, uid or t skipped.
JsonText(p) ==
    << 123 >>
    \o JsonStringField(<< 100, 101, 118, 73, 100 >>, p.dev_id)
    \o (IF IsSome(p.gw_id)
        THEN << 44 >> \o JsonStringField(<< 103, 119, 73, 100 >>, Unwrap(p.gw_id))
        ELSE <<>>)
    \o (IF IsSome(p.uid)
        THEN << 44 >> \o JsonStringField(<< 117, 105, 100 >>, Unwrap(p.uid))
        ELSE <<>>)
    \o (IF IsSome(p.t)
        THEN << 44, 34, 116, 34, 58 >> \o Decimal(Unwrap(p.t))
        ELSE <<>>)
    \o << 44, 34, 100, 112, 115, 34, 58, 123 >>
    \o (IF Len(p.dps) = 0 THEN <<>>
        ELSE << 34 >> \o p.dps[1][1] \o << 34, 58 >> \o p.dps[1][2])
    \o << 125, 125 >>

\* The PayloadStructs of the model: devId "ab", gwId "gw" or absent, no uid,
\* t 7 or absent, dps {} or {"1":true}.
StructUniverse ==
    [dev_id : {<< 97, 98 >>},
     gw_id : {None, Some(<< 103, 119 >>)},
     uid : {None},
     t : {None, Some(7)},
     dps : {<<>>, << << << 49 >>, << 116, 114, 117, 101 >> >> >>}]

\* serde_json::from_slice::<PayloadStruct>: the bytes are read back as the
\* struct whose JSON text they are; bytes that are the text of no struct
\* are a JsonError.
JsonParse(bytes) ==
    IF \E p \in StructUniverse : JsonText(p) = bytes
    THEN Ok(CHOOSE p \in StructUniverse : JsonText(p) = bytes)
    ELSE [kind |-> "Err", err |-> "JsonError", val |-> NoStruct]

\* impl TryInto<Vec<u8>> for Payload
PayloadBytes(payload) ==
    IF payload.tag = "Struct" THEN Ok(JsonText(payload.st)) ELSE Ok(payload.text)

(***************************************************************************)
(* mesparse.rs: CommandType, Message, MessageParser                        *)
(***************************************************************************)
PREFIX_BYTES == << 0, 0, 85, 170 >>

SUFFIX_BYTES == << 0, 0, 170, 85 >>

\* b"yGAdlopoPVldABfn"
UDP_KEY == << 121, 71, 65, 100, 108, 111, 112, 111, 80, 86, 108, 100, 65, 66, 102, 110 >>

\* The discriminants of enum CommandType
CommandType == (0..14) \cup (16..20) \cup (240..252) \cup {255}

Control == 7

HeartBeat == 9

DpQuery == 10

DpRefresh == 18

\* Message::new
Message_new(payload, command, seq_nr) ==
    [payload |-> payload, command |-> Some(command), seq_nr |-> seq_nr, ret_code |-> None]

\* MessageParser::create_payload_with_header
create_payload_with_header(mp, payload) ==
    LET enc == TuyaCipher_encrypt(mp.cipher, payload)
        digest == IF mp.version = ThreeOne THEN Repeat(0, 12)
                  ELSE TuyaCipher_md5(mp.cipher, payload)
    IN  IF enc.kind # "Ok" THEN enc
        ELSE Ok(as_bytes(mp.version) \o digest \o enc.val)

\* A variant of create_payload_header that honours the encrypt flag under
\* version 3.3 as it does under 3.1
create_payload_header_flag(mp, mes, encrypt) ==
    IF encrypt THEN create_payload_with_header(mp, PayloadBytes(mes.payload).val)
    ELSE PayloadBytes(mes.payload)

\* MessageParser::create_payload_header
create_payload_header(mp, mes, encrypt) ==
    LET bytes == PayloadBytes(mes.payload)
    IN  IF bytes.kind # "Ok" THEN bytes
        ELSE IF mp.version = ThreeOne THEN
            IF encrypt THEN create_payload_with_header(mp, bytes.val) ELSE bytes
        ELSE IF mes.command = Some(DpQuery) \/ mes.command = Some(DpRefresh)
            THEN TuyaCipher_encrypt(mp.cipher, bytes.val)
        ELSE create_payload_with_header(mp, bytes.val)

\* MessageParser::encode for a message that has a command.  The return
\* code is a u8, and u8::to_be_bytes is one byte, while ret_len counts four.
encode_frame(mp, mes, encrypt) ==
    LET seq == IF IsSome(mes.seq_nr) THEN ToBeBytes(Unwrap(mes.seq_nr)) ELSE ToBeBytes(0)
        payload == create_payload_header(mp, mes, encrypt)
        ret_len == IF IsSome(mes.ret_code) THEN 4 ELSE 0
    IN  IF payload.kind # "Ok" THEN payload
        ELSE
            LET body == PREFIX_BYTES \o seq
                        \o << 0, 0, 0, Unwrap(mes.command) >>
                        \o ToBeBytes(Len(payload.val) + 8 + ret_len)
                        \o (IF IsSome(mes.ret_code)
                            THEN << Unwrap(mes.ret_code) >>
                            ELSE <<>>)
                        \o payload.val
            IN  Ok(body \o crc(body) \o SUFFIX_BYTES)

\* A variant of encode that writes command 0 for a message without a command
encode_any(mp, mes, encrypt) ==
    encode_frame(mp, [mes EXCEPT !.command = IF IsSome(@) THEN @ ELSE Some(0)], encrypt)

\* MessageParser::encode
encode(mp, mes, encrypt) ==
    IF ~IsSome(mes.command) THEN Err("CommandTypeMissing")
    ELSE encode_frame(mp, mes, encrypt)

(***************************************************************************)
(* The nom parsers of parse_messages.  A parser result is                  *)
(* [kind, code, rest, out]: kind is "Ok", "Error" (nom::Err::Error),       *)
(* "Incomplete", "Failure" or "Panic"; code is the nom ErrorKind.          *)
(***************************************************************************)
NomOk(rest, out) == [kind |-> "Ok", code |-> "", rest |-> rest, out |-> out]

NomErr(kind, code) == [kind |-> kind, code |-> code, rest |-> <<>>, out |-> <<>>]

\* The value of a big-endian length word as far as it matters: every value
\* of 2^24 or more exceeds the length of any buffer and is read as 2^24.
LengthValue(w) == IF w[1] # 0 THEN 16777216 ELSE FromBeBytes(w)

\* map(be_u32, |n| n - 4) on the value n, followed by length_data's
\* conversion to usize.  For n < 4 the subtraction overflows: a build with
\* overflow checks panics, one without wraps to n + 2^32 - 4, more than
\* any buffer holds.
be_u32_minus4(n, checked) ==
    IF n >= 4 THEN [kind |-> "Ok", len |-> n - 4]
    ELSE IF checked THEN [kind |-> "Panic", len |-> 0]
    ELSE [kind |-> "Ok", len |-> 16777216]

\* A variant of frame_inner that takes the inner bytes and the four bytes
\* after them without comparing these to the suffix magic
frame_inner_unterminated(i, after, len) ==
    IF Len(after) < len THEN NomErr("Incomplete", "")
    ELSE NomOk(Drop(after, len + 4),
               << SubSeq(i, 5, 8), SubSeq(i, 9, 12), Take(after, len) >>)

\* length_data and tag(SUFFIX_BYTES) on after, the input that follows the
\* length word, for the inner length len; out is
\* << seq_nr word, command word, recv_data >>.
frame_inner(i, after, len) ==
    IF Len(after) < len THEN NomErr("Incomplete", "")
    ELSE IF Len(after) < len + 4 \/ SubSeq(after, len + 1, len + 4) # SUFFIX_BYTES
        THEN NomErr("Error", "Tag")
    ELSE NomOk(Drop(after, len + 4),
               << SubSeq(i, 5, 8), SubSeq(i, 9, 12), Take(after, len) >>)

frame_length(i, inner) ==
    IF inner.kind = "Panic" THEN NomErr("Panic", "")
    ELSE frame_inner(i, Drop(i, 16), inner.len)

\* tuple((tag(PREFIX_BYTES), be_u32, be_u32, length_data(be_u32_minus4),
\*        tag(SUFFIX_BYTES))) on the input i
frame_tuple(i, checked) ==
    IF Len(i) < 4 \/ Take(i, 4) # PREFIX_BYTES THEN NomErr("Error", "Tag")
    ELSE IF Len(i) < 16 THEN NomErr("Error", "Eof")
    ELSE frame_length(i, be_u32_minus4(LengthValue(SubSeq(i, 13, 16)), checked))

\* The loop of many1 after its first match: an Error ends the repetition
\* with what was matched, any other failure is returned.
RECURSIVE many_loop(_, _, _)
RECURSIVE many_step(_, _, _, _)
many_step(i, checked, acc, r) ==
    IF r.kind = "Error" THEN NomOk(i, acc)
    ELSE IF r.kind # "Ok" THEN r
    ELSE many_loop(r.rest, checked, Append(acc, r.out))

many_loop(i, checked, acc) == many_step(i, checked, acc, frame_tuple(i, checked))

many1_first(checked, r) ==
    IF r.kind # "Ok" THEN r ELSE many_loop(r.rest, checked, << r.out >>)

\* many1(frame_tuple)
many1(i, checked) == many1_first(checked, frame_tuple(i, checked))

\* The string "Payload invalid"
PayloadInvalid == << 80, 97, 121, 108, 111, 97, 100, 32, 105, 110, 118, 97, 108, 105, 100 >>

\* The Payload of the bytes text: a struct when they are its JSON text,
\* else the string they are in UTF-8, else "Payload invalid"
payload_choice(text, json) ==
    IF json.kind = "Ok" THEN Ok(PayloadStructOf(json.val))
    ELSE IF IsUtf8(text) THEN Ok(PayloadString(text))
    ELSE Ok(PayloadString(PayloadInvalid))

payload_from_text(text) == payload_choice(text, JsonParse(text))

\* A variant of payload_of that gives "Payload invalid" when decrypt failed
payload_of_strict(payload, dec) ==
    IF dec.kind = "Panic" THEN Panic
    ELSE IF dec.kind = "Ok" THEN payload_from_text(dec.val)
    ELSE Ok(PayloadString(PayloadInvalid))

\* try_decrypt from the result dec of cipher.decrypt: the decrypted bytes
\* when it succeeded, the payload bytes as they are when it failed; a
\* panic of decrypt (maybe_strip_header) aborts the call.
payload_of(payload, dec) ==
    IF dec.kind = "Panic" THEN Panic
    ELSE payload_from_text(IF dec.kind = "Ok" THEN dec.val ELSE payload)

\* MessageParser::try_decrypt
try_decrypt(mp, payload) == payload_of(payload, TuyaCipher_decrypt(mp.cipher, payload))

\* A variant of command_from_u32 that looks at the low byte of the word only
command_from_low_byte(w) == IF w[4] \in CommandType THEN Some(w[4]) ELSE None

\* FromPrimitive::from_u32(command)
command_from_u32(w) ==
    IF w[1] = 0 /\ w[2] = 0 /\ w[3] = 0 /\ w[4] \in CommandType THEN Some(w[4]) ELSE None

\* A variant of decode_message that reports the sequence number 0 as None
decode_message_zero_none(frame, ret_code, dec) ==
    IF dec.kind = "Panic" THEN NomErr("Panic", "")
    ELSE NomOk(<<>>,
               [payload |-> dec.val,
                command |-> command_from_u32(frame[2]),
                seq_nr |-> IF FromBeBytes(frame[1]) = 0 THEN None
                           ELSE Some(FromBeBytes(frame[1])),
                ret_code |-> ret_code])

\* The Message of a frame << seq_nr, command, recv_data >> whose CRC
\* matched, from the result dec of try_decrypt
decode_message(frame, ret_code, dec) ==
    IF dec.kind = "Panic" THEN NomErr("Panic", "")
    ELSE NomOk(<<>>,
               [payload |-> dec.val,
                command |-> command_from_u32(frame[2]),
                seq_nr |-> Some(FromBeBytes(frame[1])),
                ret_code |-> ret_code])

\* The CRC check on recv_data, the inner bytes after the return code:
\* recv_data.len() - 4 underflows when fewer than 4 bytes are left, and
\* the CRC is computed on orig_buf from its first byte.
decode_crc(mp, orig_buf, frame, recv_data, ret_code, ret_len) ==
    IF Len(recv_data) < 4 THEN NomErr("Panic", "")
    ELSE IF crc(Take(orig_buf, Len(recv_data) + 12 + ret_len))
            # Drop(recv_data, Len(recv_data) - 4)
        THEN NomErr("Failure", "ManyMN")
    ELSE decode_message(frame, ret_code,
                        try_decrypt(mp, Take(recv_data, Len(recv_data) - 4)))

\* The return code: present when the high 24 bits of the next word are zero
decode_ret(mp, orig_buf, frame, has_ret) ==
    decode_crc(mp, orig_buf, frame,
               IF has_ret THEN Drop(frame[3], 4) ELSE frame[3],
               IF has_ret THEN Some(frame[3][4]) ELSE None,
               IF has_ret THEN 4 ELSE 0)

\* One pass of the for loop of parse_messages on a matched frame
\* << seq_nr, command, recv_data >>; out is the Message.
decode_frame(mp, orig_buf, frame) ==
    IF Len(frame[3]) < 4 THEN NomErr("Error", "Eof")
    ELSE decode_ret(mp, orig_buf, frame,
                    frame[3][1] = 0 /\ frame[3][2] = 0 /\ frame[3][3] = 0)

RECURSIVE decode_frames(_, _, _, _)
RECURSIVE decode_next(_, _, _, _, _)
decode_next(mp, orig_buf, frames, messages, r) ==
    IF r.kind # "Ok" THEN r
    ELSE decode_frames(mp, orig_buf, Tail(frames), Append(messages, r.out))

\* The for loop of parse_messages
decode_frames(mp, orig_buf, frames, messages) ==
    IF Len(frames) = 0 THEN NomOk(<<>>, messages)
    ELSE decode_next(mp, orig_buf, frames, messages,
                     decode_frame(mp, orig_buf, Head(frames)))

parse_decoded(m, d) == IF d.kind # "Ok" THEN d ELSE NomOk(m.rest, d.out)

parse_matched(mp, orig_buf, m) ==
    IF m.kind # "Ok" THEN m
    ELSE parse_decoded(m, decode_frames(mp, orig_buf, m.out, <<>>))

\* MessageParser::parse_messages
parse_messages(mp, orig_buf, checked) == parse_matched(mp, orig_buf, many1(orig_buf, checked))

\* The map_err of MessageParser::parse and its check for bytes left over
parse_result(r) ==
    IF r.kind = "Panic" THEN Panic
    ELSE IF r.kind = "Error" THEN Err("ParseError")
    ELSE IF r.kind = "Incomplete" THEN Err("ParsingIncomplete")
    ELSE IF r.kind = "Failure" /\ r.code = "ManyMN" THEN Err("CRCError")
    ELSE IF r.kind = "Failure" THEN Err("ParseError")
    ELSE IF Len(r.rest) # 0 THEN Err("BufferNotCompletelyParsedError")
    ELSE Ok(r.out)

\* MessageParser::parse
parse(mp, buf, checked) == parse_result(parse_messages(mp, buf, checked))

\* A variant of verify_key that accepts every key of 16 bytes or more
verify_key_atleast(key) ==
    IF IsSome(key) THEN
        IF Len(Unwrap(key)) >= 16 THEN Ok(Unwrap(key))
        ELSE [kind |-> "Err", err |-> "KeyLength", val |-> << Len(Unwrap(key)) >>]
    ELSE Ok(md5_compute(UDP_KEY))

\* verify_key
verify_key(key) ==
    IF IsSome(key) THEN
        IF Len(Unwrap(key)) = 16 THEN Ok(Unwrap(key))
        ELSE [kind |-> "Err", err |-> "KeyLength", val |-> << Len(Unwrap(key)) >>]
    ELSE Ok(md5_compute(UDP_KEY))

\* str::split('.'): the tokens between the dots (46), at least one
RECURSIVE Split(_, _)
Split(s, cur) ==
    IF Len(s) = 0 THEN << cur >>
    ELSE IF Head(s) = 46 THEN << cur >> \o Split(Tail(s), <<>>)
    ELSE Split(Tail(s), Append(cur, Head(s)))

\* The string "Unknown"
Unknown == << 85, 110, 107, 110, 111, 119, 110 >>

\* A variant of from_str that requires the major token to be "3"
from_str_exact_major(s) ==
    LET version == Split(s, <<>>)
    IN  IF Len(version) > 1 /\ version[1] = << 51 >>
        THEN IF version[2] = << 49 >> THEN Ok(ThreeOne)
             ELSE IF version[2] = << 51 >> THEN Ok(ThreeThree)
             ELSE [kind |-> "Err", err |-> "VersionError",
                   val |-> << version[1], version[2] >>]
        ELSE [kind |-> "Err", err |-> "VersionError", val |-> << Unknown, Unknown >>]

\* impl FromStr for TuyaVersion; the value of an error is << maj, min >>
from_str(s) ==
    LET version == Split(s, <<>>)
    IN  IF Len(version) > 1 /\ Len(version[1]) > 0 /\ version[1][Len(version[1])] = 51
        THEN IF version[2] = << 49 >> THEN Ok(ThreeOne)
             ELSE IF version[2] = << 51 >> THEN Ok(ThreeThree)
             ELSE [kind |-> "Err", err |-> "VersionError",
                   val |-> << version[1], version[2] >>]
        ELSE [kind |-> "Err", err |-> "VersionError", val |-> << Unknown, Unknown >>]

\* MessageParser::create
MessageParser_create(ver, key) ==
    LET version == from_str(ver)
        k == verify_key(key)
    IN  IF version.kind # "Ok" THEN version
        ELSE IF k.kind # "Ok" THEN k
        ELSE Ok([version |-> version.val,
                 cipher |-> TuyaCipher_create(k.val, version.val)])

(***************************************************************************)
(* State                                                                   *)
(*                                                                         *)
(*   pc          what has been applied so far                              *)
(*   mp          the MessageParser {version, cipher} after construction    *)
(*   mes         the Message handed to encode                              *)
(*   encrypt     the encrypt flag handed to encode                         *)
(*   encoded     the result of encode                                      *)
(*   how, arg    how buf was made of encoded frames, and with what         *)
(*   buf         the bytes handed to parse                                 *)
(*   parsed      the result of parse                                       *)
(*   ver, key    the arguments of MessageParser::create                    *)
(*   ver_result  the result of TuyaVersion::from_str on ver                *)
(*   created     the result of MessageParser::create on ver and key        *)
(*   plain       the bytes handed to TuyaCipher::encrypt                   *)
(*   ciphertext  the result of TuyaCipher::encrypt                         *)
(*   decrypted   the result of TuyaCipher::decrypt on ciphertext           *)
(*   transport   the Transport of the TuyaDevice, "TCP" or "UDP"           *)
(*   op          the operation called on the device: set, get or refresh   *)
(*   tt          the transport of the round-trip: "none", "open",          *)
(*               "set_up" or "torn_down"                                   *)
(*   released    whether the transport of the round-trip was dropped       *)
(*   steps       the steps of the round-trip taken so far, in order        *)
(*   bts         the number of bytes the read returned                     *)
(*   sent        the bytes written to the transport                        *)
(*   result      the result of the operation                               *)
(*   calls       the number of operations that have returned               *)
(*   reply       the bytes the device sent back                            *)
(***************************************************************************)
VARIABLES pc, mp, mes, encrypt, encoded, how, arg, buf, parsed,
          ver, key, ver_result, created, plain, ciphertext, decrypted,
          transport, op, tt, released, steps, bts, sent, result, calls, reply

vars == << pc, mp, mes, encrypt, encoded, how, arg, buf, parsed,
           ver, key, ver_result, created, plain, ciphertext, decrypted,
           transport, op, tt, released, steps, bts, sent, result, calls, reply >>

codecVars == << mp, mes, encrypt, encoded, how, arg, buf, parsed >>

createVars == << ver, key, ver_result, created >>

cipherVars == << plain, ciphertext, decrypted >>

deviceVars ==
    << transport, op, tt, released, steps, bts, sent, result, calls, reply >>

\* A result not yet computed
Nothing == [kind |-> "None", err |-> "", val |-> <<>>]

(***************************************************************************)
(* Inputs                                                                  *)
(***************************************************************************)
\* b"bbe88b3f4106d354", the device key of the tests
TestKey == << 98, 98, 101, 56, 56, 98, 51, 102, 52, 49, 48, 54, 100, 51, 53, 52 >>

\* The parsers MessageParser::create returns: either version, with the
\* default key or the test key.
Parsers ==
    { [version |-> v, cipher |-> TuyaCipher_create(k, v)] :
        v \in TuyaVersion, k \in {md5_compute(UDP_KEY), TestKey} }

\* {"devId":"ab","dps":{"1":true}}
StructPlain == [dev_id |-> << 97, 98 >>, gw_id |-> None, uid |-> None, t |-> None,
                dps |-> << << << 49 >>, << 116, 114, 117, 101 >> >> >>]

\* {"devId":"ab","gwId":"gw","t":7,"dps":{}}
StructFull == [dev_id |-> << 97, 98 >>, gw_id |-> Some(<< 103, 119 >>), uid |-> None,
               t |-> Some(7), dps |-> <<>>]

\* "data format error"
DataFormatError == << 100, 97, 116, 97, 32, 102, 111, 114, 109, 97, 116, 32,
                      101, 114, 114, 111, 114 >>

\* The string of the four bytes 00 00 00 08
LengthLikeString == << 0, 0, 0, 8 >>

\* "3.1x" and "3.3x": strings that start with a version tag
TagLikeStrings == { << 51, 46, 49, 120 >>, << 51, 46, 51, 120 >> }

Payloads ==
    { PayloadStructOf(StructPlain), PayloadStructOf(StructFull),
      PayloadString(<<>>), PayloadString(DataFormatError),
      PayloadString(JsonText(StructPlain)), PayloadString(LengthLikeString) }
    \cup { PayloadString(s) : s \in TagLikeStrings }

\* The largest sequence number of the inputs besides 000055AA (21930), the
\* sequence number whose bytes are those of the prefix magic
MaxSeq == 2

SeqNrs == {None, Some(21930)} \cup { Some(n) : n \in 0..MaxSeq }

\* The largest return code of the inputs
MaxRetCode == 1

RetCodes == {None} \cup { Some(n) : n \in 0..MaxRetCode }

Commands == { None, Some(Control), Some(HeartBeat), Some(DpQuery), Some(DpRefresh) }

Messages ==
    [payload : Payloads, command : Commands, seq_nr : SeqNrs, ret_code : RetCodes]

(***************************************************************************)
(* Spec: a parser encodes a message and parses the frame it made.          *)
(***************************************************************************)
IdleCreate == ver = <<>> /\ key = None /\ ver_result = Nothing /\ created = Nothing

IdleCipher == plain = <<>> /\ ciphertext = Nothing /\ decrypted = Nothing

IdleDevice ==
    /\ transport = "TCP" /\ op = "" /\ tt = "none" /\ released = FALSE
    /\ steps = <<>> /\ bts = None /\ sent = <<>> /\ result = Nothing
    /\ calls = 0 /\ reply = <<>>

Init ==
    /\ pc = "created"
    /\ mp \in Parsers
    /\ mes \in Messages
    /\ encrypt \in BOOLEAN
    /\ encoded = Nothing
    /\ how = ""
    /\ arg = <<>>
    /\ buf = <<>>
    /\ parsed = Nothing
    /\ IdleCreate
    /\ IdleCipher
    /\ IdleDevice

\* encoded = parser.encode(&mes, encrypt)
Encode ==
    /\ pc = "created"
    /\ encoded' = encode(mp, mes, encrypt)
    /\ pc' = "encoded"
    /\ UNCHANGED << mp, mes, encrypt, how, arg, buf, parsed >>
    /\ UNCHANGED << createVars, cipherVars, deviceVars >>

\* The buffer is the encoded frame as it is.
Whole ==
    /\ pc = "encoded"
    /\ encoded.kind = "Ok"
    /\ buf' = encoded.val
    /\ how' = "whole"
    /\ pc' = "buffered"
    /\ UNCHANGED << mp, mes, encrypt, encoded, arg, parsed >>
    /\ UNCHANGED << createVars, cipherVars, deviceVars >>

\* parsed = parser.parse(&buf), in a build with or without overflow checks
Parse ==
    /\ pc = "buffered"
    /\ \E checked \in BOOLEAN : parsed' = parse(mp, buf, checked)
    /\ pc' = "parsed"
    /\ UNCHANGED << mp, mes, encrypt, encoded, how, arg, buf >>
    /\ UNCHANGED << createVars, cipherVars, deviceVars >>

Next == Encode \/ Whole \/ Parse

Spec == Init /\ [][Next]_vars

(***************************************************************************)
(* SpecBuffer: a parser encodes a message, the frame is made into a        *)
(* buffer (as it is, followed by a second frame, followed by trailing      *)
(* bytes, with another CRC, or cut to a slice) and the buffer is parsed.   *)
(***************************************************************************)
BufferParsers ==
    { [version |-> v, cipher |-> TuyaCipher_create(TestKey, v)] : v \in TuyaVersion }

BufferPayloads ==
    { PayloadStructOf(StructPlain), PayloadString(<<>>), PayloadString(LengthLikeString) }

BufferMessages ==
    [payload : BufferPayloads, command : {Some(Control), Some(DpQuery)},
     seq_nr : {Some(1), Some(21930)}, ret_code : {None, Some(0)}]

\* The values written over the CRC of a frame
CrcWords == { << 0, 0, 0, 5 >>, << 222, 173, 190, 239 >> }

\* Bytes that follow the last frame of a buffer and complete no frame: one
\* byte, the prefix magic alone, a frame header that announces more bytes
\* than follow, and a frame header whose length word is 0.
Trailers ==
    { << 0 >>,
      PREFIX_BYTES,
      PREFIX_BYTES \o Repeat(0, 8) \o << 0, 0, 0, 16, 1, 2 >>,
      PREFIX_BYTES \o Repeat(0, 8) \o << 0, 0, 0, 0 >> }

InitBuffer ==
    /\ pc = "created"
    /\ mp \in BufferParsers
    /\ mes \in BufferMessages
    /\ encrypt \in BOOLEAN
    /\ encoded = Nothing
    /\ how = ""
    /\ arg = <<>>
    /\ buf = <<>>
    /\ parsed = Nothing
    /\ IdleCreate
    /\ IdleCipher
    /\ IdleDevice

\* The buffer is the encoded frame followed by the frame of a second message.
ConcatFrames ==
    /\ pc = "encoded"
    /\ encoded.kind = "Ok"
    /\ \E m2 \in BufferMessages :
          /\ encode(mp, m2, encrypt).kind = "Ok"
          /\ buf' = encoded.val \o encode(mp, m2, encrypt).val
          /\ arg' = << m2 >>
    /\ how' = "concat"
    /\ pc' = "buffered"
    /\ UNCHANGED << mp, mes, encrypt, encoded, parsed >>
    /\ UNCHANGED << createVars, cipherVars, deviceVars >>

\* Bytes that complete no frame follow the frames of the buffer.
AppendTrailing ==
    /\ pc = "buffered"
    /\ how \in {"whole", "concat"}
    /\ \E t \in Trailers :
          /\ buf' = buf \o t
          /\ arg' = Append(arg, t)
    /\ how' = "trailing"
    /\ UNCHANGED << pc, mp, mes, encrypt, encoded, parsed >>
    /\ UNCHANGED << createVars, cipherVars, deviceVars >>

\* The buffer is the encoded frame with another value in its CRC field,
\* the four bytes before the suffix magic.
ReplaceCrc ==
    /\ pc = "encoded"
    /\ encoded.kind = "Ok"
    /\ \E c \in CrcWords :
          /\ c # SubSeq(encoded.val, Len(encoded.val) - 7, Len(encoded.val) - 4)
          /\ buf' = Take(encoded.val, Len(encoded.val) - 8) \o c \o SUFFIX_BYTES
          /\ arg' = c
    /\ how' = "crc"
    /\ pc' = "buffered"
    /\ UNCHANGED << mp, mes, encrypt, encoded, parsed >>
    /\ UNCHANGED << createVars, cipherVars, deviceVars >>

\* The buffer is the slice [from..to] of the encoded frame: a proper
\* prefix, or a slice that starts after the prefix magic and ends where
\* the frame or its CRC ends.
Slice ==
    /\ pc = "encoded"
    /\ encoded.kind = "Ok"
    /\ \E from \in {0} \cup (4..Len(encoded.val)) :
       \E to \in from..Len(encoded.val) :
          /\ from = 0 => to < Len(encoded.val)
          /\ from # 0 => to \in {Len(encoded.val) - 4, Len(encoded.val)}
          /\ buf' = SubSeq(encoded.val, from + 1, to)
          /\ arg' = << from, to >>
    /\ how' = "slice"
    /\ pc' = "buffered"
    /\ UNCHANGED << mp, mes, encrypt, encoded, parsed >>
    /\ UNCHANGED << createVars, cipherVars, deviceVars >>

NextBuffer ==
    Encode \/ Whole \/ ConcatFrames \/ AppendTrailing \/ ReplaceCrc \/ Slice \/ Parse

SpecBuffer == InitBuffer /\ [][NextBuffer]_vars

(***************************************************************************)
(* SpecCreate: a version string is parsed and a MessageParser is created   *)
(* of the version string and an optional key.                              *)
(***************************************************************************)
\* The longest version string made of the characters '1', '3' and '.'
MaxVerLen == 4

\* "ver3.3", "3.4", "abc", "3.1x" and "4.1"
VerExamples ==
    { << 118, 101, 114, 51, 46, 51 >>, << 51, 46, 52 >>, << 97, 98, 99 >>,
      << 51, 46, 49, 120 >>, << 52, 46, 49 >> }

VerStrings ==
    VerExamples \cup UNION { [1..n -> {49, 51, 46}] : n \in 0..MaxVerLen }

\* The longest key
MaxKeyLen == 17

Keys == {None, Some(TestKey)} \cup { Some(Repeat(107, n)) : n \in 0..MaxKeyLen }

InitCreate ==
    /\ pc = "init"
    /\ ver \in VerStrings
    /\ key \in Keys
    /\ ver_result = Nothing
    /\ created = Nothing
    /\ mp = [version |-> ThreeOne, cipher |-> TuyaCipher_create(TestKey, ThreeOne)]
    /\ mes = Message_new(PayloadString(<<>>), HeartBeat, None)
    /\ encrypt = FALSE
    /\ encoded = Nothing
    /\ how = ""
    /\ arg = <<>>
    /\ buf = <<>>
    /\ parsed = Nothing
    /\ IdleCipher
    /\ IdleDevice

\* ver_result = TuyaVersion::from_str(ver)
FromStr ==
    /\ pc = "init"
    /\ ver_result' = from_str(ver)
    /\ pc' = "versioned"
    /\ UNCHANGED << ver, key, created >>
    /\ UNCHANGED << codecVars, cipherVars, deviceVars >>

\* created = MessageParser::create(ver, key)
Create ==
    /\ pc = "versioned"
    /\ created' = MessageParser_create(ver, key)
    /\ pc' = "created"
    /\ UNCHANGED << ver, key, ver_result >>
    /\ UNCHANGED << codecVars, cipherVars, deviceVars >>

NextCreate == FromStr \/ Create

SpecCreate == InitCreate /\ [][NextCreate]_vars

(***************************************************************************)
(* SpecCipher: the cipher of a parser encrypts a byte string and decrypts  *)
(* the result.                                                             *)
(***************************************************************************)
\* The longest plaintext made of the bytes 0 and '3'
MaxPlainLen == 3

\* A block that starts with the version tag
TagBlock(version) == as_bytes(version) \o Repeat(0, AesBlockSize - 3)

\* The plaintexts handed to a cipher with the key k: short strings, strings
\* about one block long, and the blocks whose ciphertext under k starts
\* with a version tag.
CipherPlains(k) ==
    UNION { [1..n -> {0, 51}] : n \in 0..MaxPlainLen }
    \cup { Repeat(120, n) : n \in (AesBlockSize - 1)..(AesBlockSize + 1) }
    \cup { AesBlockDecrypt(k, TagBlock(v)) : v \in TuyaVersion }

InitCipher ==
    /\ pc = "created"
    /\ mp \in Parsers
    /\ plain \in CipherPlains(mp.cipher.key)
    /\ ciphertext = Nothing
    /\ decrypted = Nothing
    /\ mes = Message_new(PayloadString(<<>>), HeartBeat, None)
    /\ encrypt = FALSE
    /\ encoded = Nothing
    /\ how = ""
    /\ arg = <<>>
    /\ buf = <<>>
    /\ parsed = Nothing
    /\ IdleCreate
    /\ IdleDevice

\* ciphertext = cipher.encrypt(&plain)
Encrypt ==
    /\ pc = "created"
    /\ ciphertext' = TuyaCipher_encrypt(mp.cipher, plain)
    /\ pc' = "encrypted"
    /\ UNCHANGED << plain, decrypted >>
    /\ UNCHANGED << codecVars, createVars, deviceVars >>

\* decrypted = cipher.decrypt(&ciphertext)
Decrypt ==
    /\ pc = "encrypted"
    /\ ciphertext.kind = "Ok"
    /\ decrypted' = TuyaCipher_decrypt(mp.cipher, ciphertext.val)
    /\ pc' = "decrypted"
    /\ UNCHANGED << plain, ciphertext >>
    /\ UNCHANGED << codecVars, createVars, deviceVars >>

NextCipher == Encrypt \/ Decrypt

SpecCipher == InitCipher /\ [][NextCipher]_vars

(***************************************************************************)
(* SpecReply: a parser receives one or two frames as a device puts them on *)
(* the wire and parses them.                                               *)
(***************************************************************************)
\* A frame on the wire: prefix magic, sequence number, command, length,
\* an optional return-code word ret, the payload region, the CRC word crcw
\* and the suffix magic
WireFrameWith(seq, cmd, ret, region, crcw) ==
    PREFIX_BYTES \o seq \o cmd \o ToBeBytes(Len(ret) + Len(region) + 8)
    \o ret \o region \o crcw \o SUFFIX_BYTES

\* The bytes of a frame that precede its CRC
WireBody(seq, cmd, ret, region) ==
    PREFIX_BYTES \o seq \o cmd \o ToBeBytes(Len(ret) + Len(region) + 8) \o ret \o region

\* A frame on the wire with the CRC of its own bytes
WireFrame(seq, cmd, ret, region) ==
    WireFrameWith(seq, cmd, ret, region, crc(WireBody(seq, cmd, ret, region)))

SeqWords == { << 0, 0, 0, 0 >>, << 0, 0, 0, 2 >> }

\* HeartBeat, Control, and the command codes 15, 263 and 16777223, which
\* are no values of CommandType
CmdWords ==
    { << 0, 0, 0, HeartBeat >>, << 0, 0, 0, Control >>, << 0, 0, 0, 15 >>,
      << 0, 0, 1, 7 >>, << 1, 0, 0, 7 >> }

\* No return-code word, return code 0 and return code 1
RetWords == { <<>>, << 0, 0, 0, 0 >>, << 0, 0, 0, 1 >> }

\* The payload region of a reply with the given text as a device builds it:
\* the version tag, 16 bytes (3.1) or the 12 digest bytes (3.3), and the
\* output of the cipher
DeviceReply(parser, text) ==
    as_bytes(parser.version)
    \o (IF parser.version = ThreeOne THEN Repeat(48, HeaderLenThreeOne - 3)
        ELSE TuyaCipher_md5(parser.cipher, text))
    \o TuyaCipher_encrypt(parser.cipher, text).val

\* The payload regions of the frames: none, plain text, four bytes with
\* and without zero high 24 bits, cipher output with and without header,
\* and a version tag with one byte after it
Regions(parser) ==
    { <<>>, DataFormatError, LengthLikeString, << 0, 0, 1, 0 >>,
      DeviceReply(parser, DataFormatError),
      TuyaCipher_encrypt(parser.cipher, JsonText(StructPlain)).val,
      as_bytes(parser.version) \o << 120 >> }

\* The sequence number 39895836: the heartbeat frame with this sequence
\* number, no return-code word and no payload has the CRC 00 00 00 42
CrcLikeRetSeq == << 2, 96, 195, 28 >>

WireFrames(parser) ==
    [seq : SeqWords, cmd : CmdWords, ret : RetWords, region : Regions(parser), own : {TRUE}]
    \cup { [seq |-> CrcLikeRetSeq, cmd |-> << 0, 0, 0, HeartBeat >>, ret |-> << >>,
            region |-> << >>, own |-> TRUE] }

\* The frames that follow a first frame: with the CRC of their own bytes,
\* or with the CRC of as many leading bytes of the buffer
SecondFrames(parser) ==
    [seq : { << 0, 0, 0, 0 >> }, cmd : { << 0, 0, 0, HeartBeat >>, << 0, 0, 0, DpQuery >> },
     ret : { << 0, 0, 0, 0 >> }, region : { <<>>, DeviceReply(parser, DataFormatError) },
     own : BOOLEAN]

IdleEncode == mes = Message_new(PayloadString(<<>>), HeartBeat, None)
              /\ encrypt = FALSE /\ encoded = Nothing

InitReply ==
    /\ pc = "created"
    /\ mp \in Parsers
    /\ IdleEncode
    /\ how = ""
    /\ arg = <<>>
    /\ buf = <<>>
    /\ parsed = Nothing
    /\ IdleCreate
    /\ IdleCipher
    /\ IdleDevice

\* The buffer is one frame from the wire.
Receive ==
    /\ pc = "created"
    /\ \E f \in WireFrames(mp) :
          /\ buf' = WireFrame(f.seq, f.cmd, f.ret, f.region)
          /\ arg' = << f >>
    /\ how' = "wire"
    /\ pc' = "buffered"
    /\ UNCHANGED << mp, mes, encrypt, encoded, parsed >>
    /\ UNCHANGED << createVars, cipherVars, deviceVars >>

\* A second frame follows a first frame that is an empty reply or a device
\* reply.
ReceiveSecond ==
    /\ pc = "buffered"
    /\ how = "wire"
    /\ Len(arg) = 1
    /\ arg[1].region \in { <<>>, DeviceReply(mp, DataFormatError) }
    /\ \E f \in SecondFrames(mp) :
          /\ buf' = buf \o WireFrameWith(f.seq, f.cmd, f.ret, f.region,
                        IF f.own THEN crc(WireBody(f.seq, f.cmd, f.ret, f.region))
                        ELSE crc(Take(buf \o WireBody(f.seq, f.cmd, f.ret, f.region),
                                      Len(WireBody(f.seq, f.cmd, f.ret, f.region)))))
          /\ arg' = Append(arg, f)
    /\ UNCHANGED << pc, how, mp, mes, encrypt, encoded, parsed >>
    /\ UNCHANGED << createVars, cipherVars, deviceVars >>

NextReply == Receive \/ ReceiveSecond \/ Parse

SpecReply == InitReply /\ [][NextReply]_vars

(***************************************************************************)
(* The device session: TuyaDevice::set, get and refresh, and the           *)
(* round-trip of TuyaDevice::send                                          *)
(***************************************************************************)

Transports == { "TCP", "UDP" }

Operations == { "set", "get", "refresh" }

\* The command of the message an operation builds
OperationCommand(o) ==
    IF o = "set" THEN Control
    ELSE IF o = "get" THEN DpQuery
    ELSE DpRefresh

\* The size of the receive buffer of send
BufSize == 256

\* The steps of send, in the order of its statements
RoundTripOrder ==
    << "open", "setup", "encode", "write", "read", "teardown", "parse" >>

\* read_error with one error for both transports
read_error_stream(t) == Err("BadTcpRead")

\* The error of send for a read of zero bytes
read_error(t) ==
    IF t = "TCP" THEN Err("BadTcpRead") ELSE Err("BadUdpRead")

\* The outcomes of tt_teardown: shutdown of a TcpStream can fail, the
\* teardown of a UdpSocket returns Ok(())
teardown_outcomes(t) ==
    IF t = "TCP" THEN BOOLEAN ELSE { TRUE }

\* What set, get and refresh return for the result of send
operation_result(o, replies) ==
    IF replies.kind # "Ok" THEN replies
    ELSE IF o = "set" THEN Ok(<< >>)
    ELSE replies

\* The reply of a device that rejects the request: return code 1 and the
\* text "data format error"
ErrorReply(parser) ==
    WireFrame(<< 0, 0, 0, 0 >>, << 0, 0, 0, Control >>, << 0, 0, 0, 1 >>,
              DeviceReply(parser, DataFormatError))

\* The reply of a device that accepts the request: return code 0 and no
\* payload
AcceptReply ==
    WireFrame(<< 0, 0, 0, 1 >>, << 0, 0, 0, Control >>, << 0, 0, 0, 0 >>, << >>)

\* The reply of a device that reports its state
StatusReply(parser) ==
    WireFrame(<< 0, 0, 0, 1 >>, << 0, 0, 0, DpQuery >>, << 0, 0, 0, 0 >>,
              DeviceReply(parser, JsonText(StructPlain)))

\* A reply longer than the receive buffer: a frame whose length field
\* announces BufSize + 8 bytes, of which the buffer holds the first ones
LongReply ==
    PREFIX_BYTES \o << 0, 0, 0, 1 >> \o << 0, 0, 0, DpQuery >>
    \o ToBeBytes(BufSize + 8) \o [ i \in 1 .. BufSize |-> 97 ]
    \o << 0, 0, 0, 0 >> \o SUFFIX_BYTES

\* A reply of two frames: an acceptance followed by a status
DoubleReply(parser) == AcceptReply \o StatusReply(parser)

\* What the device sends back: nothing, a rejection, an acceptance, a
\* status, more than the buffer holds, or two frames
Replies(parser) ==
    { << >>, ErrorReply(parser), AcceptReply, StatusReply(parser),
      LongReply, DoubleReply(parser) }

\* A number of bytes that ends inside the header of a frame
CutShort == 20

\* The numbers of bytes one read can deliver of the bytes r the device
\* sent: as many as the buffer holds, or the bytes that have arrived so
\* far, which end inside the first frame or at the end of it
ReadCounts(r) ==
    { IF Len(r) > BufSize THEN BufSize ELSE Len(r) }
    \cup { n \in { CutShort, Len(AcceptReply) } : n < Len(r) }

\* The number of operations called on the device
MaxCalls == 2

\* The sequence numbers the caller supplies
SeqIds == 0 .. 1

InitDevice ==
    /\ pc = "device"
    /\ mp \in BufferParsers
    /\ transport \in Transports
    /\ op \in Operations
    /\ tt = "none"
    /\ released = FALSE
    /\ steps = << >>
    /\ bts = None
    /\ sent = << >>
    /\ result = Nothing
    /\ calls = 0
    /\ reply = << >>
    /\ IdleEncode
    /\ how = ""
    /\ arg = << >>
    /\ buf = << >>
    /\ parsed = Nothing
    /\ IdleCreate
    /\ IdleCipher

\* Return with a transport that outlives the call
Return_leaking(r, t) ==
    /\ result' = r
    /\ tt' = t
    /\ released' = FALSE
    /\ pc' = "returned"

\* send returns r; its transport, when it has one, is dropped at the end
\* of the scope
Return(r, t) ==
    /\ result' = r
    /\ tt' = t
    /\ released' = (t # "none")
    /\ pc' = "returned"

\* set, get or refresh builds the message and calls send
Call ==
    /\ pc = "device"
    /\ \E seq_id \in SeqIds :
          mes' = Message_new(PayloadStructOf(StructPlain),
                             OperationCommand(op), Some(seq_id))
    /\ pc' = "called"
    /\ UNCHANGED << mp, encrypt, encoded, how, arg, buf, parsed >>
    /\ UNCHANGED << createVars, cipherVars, deviceVars >>

\* TcpStream::connect or UdpSocket::bind
Connect ==
    /\ pc = "called"
    /\ steps' = Append(steps, "open")
    /\ \E ok \in BOOLEAN :
          IF ok THEN /\ tt' = "open"
                     /\ pc' = "opened"
                     /\ UNCHANGED << released, result >>
          ELSE Return(Err("TcpError"), "none")
    /\ UNCHANGED << mp, mes, encrypt, encoded, how, arg, buf, parsed >>
    /\ UNCHANGED << createVars, cipherVars, transport, op, bts, sent, calls, reply >>

\* tt.tt_setup(self.addr)?
Setup ==
    /\ pc = "opened"
    /\ steps' = Append(steps, "setup")
    /\ \E ok \in BOOLEAN :
          IF ok THEN /\ tt' = "set_up"
                     /\ pc' = "ready"
                     /\ UNCHANGED << released, result >>
          ELSE Return(Err("TcpError"), tt)
    /\ UNCHANGED << mp, mes, encrypt, encoded, how, arg, buf, parsed >>
    /\ UNCHANGED << createVars, cipherVars, transport, op, bts, sent, calls, reply >>

\* tt.tt_write(self.mp.encode(mes, true)?.as_ref())?
Write ==
    /\ pc = "ready"
    /\ encrypt' = TRUE
    /\ encoded' = encode(mp, mes, TRUE)
    /\ IF encoded'.kind # "Ok"
       THEN /\ steps' = Append(steps, "encode")
            /\ Return(encoded', tt)
            /\ sent' = sent
       ELSE /\ steps' = steps \o << "encode", "write" >>
            /\ \E ok \in BOOLEAN :
                  IF ok THEN /\ sent' = encoded'.val
                             /\ pc' = "written"
                             /\ UNCHANGED << tt, released, result >>
                  ELSE /\ Return(Err("TcpError"), tt)
                       /\ sent' = sent
    /\ UNCHANGED << mp, mes, how, arg, buf, parsed >>
    /\ UNCHANGED << createVars, cipherVars, transport, op, bts, calls, reply >>

\* tt.tt_read(&mut buf)? and the check of the number of bytes read
Read ==
    /\ pc = "written"
    /\ steps' = Append(steps, "read")
    /\ \/ /\ Return(Err("TcpError"), tt)
          /\ UNCHANGED << buf, bts, reply >>
       \/ \E r \in Replies(mp) : \E n \in ReadCounts(r) :
             /\ reply' = r
             /\ buf' = Take(r, n)
             /\ bts' = Some(n)
             /\ IF Len(buf') = 0
                THEN Return(read_error(transport), tt)
                ELSE /\ pc' = "received"
                     /\ UNCHANGED << tt, released, result >>
    /\ UNCHANGED << mp, mes, encrypt, encoded, how, arg, parsed >>
    /\ UNCHANGED << createVars, cipherVars, transport, op, sent, calls >>

\* Teardown with the result of tt_teardown ignored
Teardown_unchecked ==
    /\ pc = "received"
    /\ steps' = Append(steps, "teardown")
    /\ \E ok \in teardown_outcomes(transport) :
          tt' = (IF ok THEN "torn_down" ELSE tt)
    /\ pc' = "torn_down"
    /\ UNCHANGED << released, result >>
    /\ UNCHANGED << mp, mes, encrypt, encoded, how, arg, buf, parsed >>
    /\ UNCHANGED << createVars, cipherVars, transport, op, bts, sent, calls, reply >>

\* tt.tt_teardown()?
Teardown ==
    /\ pc = "received"
    /\ steps' = Append(steps, "teardown")
    /\ \E ok \in teardown_outcomes(transport) :
          IF ok THEN /\ tt' = "torn_down"
                     /\ pc' = "torn_down"
                     /\ UNCHANGED << released, result >>
          ELSE Return(Err("TcpError"), tt)
    /\ UNCHANGED << mp, mes, encrypt, encoded, how, arg, buf, parsed >>
    /\ UNCHANGED << createVars, cipherVars, transport, op, bts, sent, calls, reply >>

\* self.mp.parse(&buf[..bts]), and what the operation makes of the result
ParseReply ==
    /\ pc = "torn_down"
    /\ steps' = Append(steps, "parse")
    /\ \E checked \in BOOLEAN : parsed' = parse(mp, buf, checked)
    /\ Return(operation_result(op, parsed'), tt)
    /\ UNCHANGED << mp, mes, encrypt, encoded, how, arg, buf >>
    /\ UNCHANGED << createVars, cipherVars, transport, op, bts, sent, calls, reply >>

\* CallAgain with the transport, the buffer and the received bytes of the
\* call that returned kept for the next one
CallAgain_keeping ==
    /\ pc = "returned"
    /\ calls + 1 < MaxCalls
    /\ calls' = calls + 1
    /\ op' \in Operations
    /\ pc' = "device"
    /\ steps' = << >>
    /\ released' = FALSE
    /\ result' = Nothing
    /\ parsed' = Nothing
    /\ encoded' = Nothing
    /\ encrypt' = FALSE
    /\ UNCHANGED << tt, bts, sent, reply, buf >>
    /\ UNCHANGED << mp, mes, how, arg, transport >>
    /\ UNCHANGED << createVars, cipherVars >>

\* The operation has returned and the caller calls the next one: the
\* locals of send (tt, buf, bts) and of the operation (mes, replies) are
\* gone, the TuyaDevice (mp, addr, transport) is as it was
CallAgain ==
    /\ pc = "returned"
    /\ calls + 1 < MaxCalls
    /\ calls' = calls + 1
    /\ op' \in Operations
    /\ pc' = "device"
    /\ tt' = "none"
    /\ released' = FALSE
    /\ steps' = << >>
    /\ bts' = None
    /\ sent' = << >>
    /\ reply' = << >>
    /\ result' = Nothing
    /\ buf' = << >>
    /\ parsed' = Nothing
    /\ encoded' = Nothing
    /\ encrypt' = FALSE
    /\ mes' = Message_new(PayloadString(<<>>), HeartBeat, None)
    /\ UNCHANGED << mp, how, arg, transport >>
    /\ UNCHANGED << createVars, cipherVars >>

NextDevice ==
    \/ Call \/ Connect \/ Setup \/ Write \/ Read \/ Teardown \/ ParseReply
    \/ CallAgain

SpecDevice == InitDevice /\ [][NextDevice]_vars

(***************************************************************************)
(* Properties                                                              *)
(***************************************************************************)
ParseFailures == { Err("ParseError"), Err("ParsingIncomplete") }

\* C1: parsing the frame encode made of a message with a command returns
\* exactly the one-element list of that message, for either version and
\* either value of the encrypt flag.
C1_RoundTrip ==
    (pc = "parsed" /\ how = "whole") => parsed = Ok(<< mes >>)

\* C2: parsing the frame of a message followed by the frame of a second
\* message returns exactly the two messages, in wire order.
C2_Concatenation ==
    (pc = "parsed" /\ how = "concat") => parsed = Ok(<< mes, arg[1] >>)

\* C3: parsing a frame whose CRC bytes were replaced by a different value
\* returns CRCError.
C3_CrcSensitivity ==
    (pc = "parsed" /\ how = "crc") => parsed = Err("CRCError")

\* C4: parsing one or more frames followed by bytes that complete no
\* further frame returns BufferNotCompletelyParsedError.
C4_TrailingBytes ==
    (pc = "parsed" /\ how = "trailing")
        => parsed = Err("BufferNotCompletelyParsedError")

\* C5 as stated: parsing a proper prefix of a frame, or a slice of it that
\* starts after the prefix magic, returns ParseError or ParsingIncomplete.
C5_Truncation ==
    (pc = "parsed" /\ how = "slice") => parsed \in ParseFailures

\* C5 as the code has it: parsing a proper prefix of a frame, or a slice of
\* it that does not begin with the bytes of the prefix magic, returns
\* ParseError or ParsingIncomplete, never Ok.
C5_TruncationOfPrefixOrUnframed ==
    (/\ pc = "parsed"
     /\ how = "slice"
     /\ (arg[1] = 0 \/ Len(buf) < 4 \/ Take(buf, 4) # PREFIX_BYTES))
        => parsed \in ParseFailures

\* A frame that lacks only its suffix magic was parsed, and the result is
\* ParseError.
C5_Witness ==
    /\ pc = "parsed"
    /\ how = "slice"
    /\ arg = << 0, Len(encoded.val) - 4 >>
    /\ parsed = Err("ParseError")

\* C6: with a valid version string, create given Some(key) succeeds if and
\* only if the key is 16 bytes long, and then the cipher key is that key;
\* otherwise it fails with KeyLength(n), n the length of the key; given no
\* key it succeeds with a cipher key of 16 bytes.
C6_KeyLength ==
    (pc = "created" /\ ver_result.kind = "Ok") =>
        IF IsSome(key)
        THEN /\ created.kind = "Ok" <=> Len(Unwrap(key)) = 16
             /\ created.kind = "Ok" => created.val.cipher.key = Unwrap(key)
             /\ created.kind # "Ok" =>
                    /\ created.err = "KeyLength"
                    /\ created.val = << Len(Unwrap(key)) >>
        ELSE /\ created.kind = "Ok"
             /\ Len(created.val.cipher.key) = 16

\* A key of 17 bytes was refused with KeyLength(17) under a valid version.
C6_Witness ==
    /\ pc = "created"
    /\ ver_result.kind = "Ok"
    /\ IsSome(key)
    /\ Len(Unwrap(key)) = 17
    /\ created.kind = "Err"
    /\ created.err = "KeyLength"
    /\ created.val = << 17 >>

\* Whether s ends with the bytes of tail
EndsWith(s, tail) ==
    Len(s) >= Len(tail) /\ SubSeq(s, Len(s) - Len(tail) + 1, Len(s)) = tail

\* The position of the first dot of s at or after position i, Len(s) + 1
\* when there is none
DotFrom(s, i) ==
    IF \E j \in i..Len(s) : s[j] = 46
    THEN CHOOSE j \in i..Len(s) : s[j] = 46 /\ \A k \in i..(j - 1) : s[k] # 46
    ELSE Len(s) + 1

\* The text of s before its first dot
MajorToken(s) == SubSeq(s, 1, DotFrom(s, 1) - 1)

\* The text of s between its first dot and its second dot or its end
MinorToken(s) == SubSeq(s, DotFrom(s, 1) + 1, DotFrom(s, DotFrom(s, 1) + 1) - 1)

\* s has a dot, and the text before its first dot ends in '3'
HasMajorThree(s) == DotFrom(s, 1) <= Len(s) /\ EndsWith(MajorToken(s), << 51 >>)

\* C7 as stated: from_str returns v3.1 exactly for the strings that end in
\* "3.1" and v3.3 exactly for the strings that end in "3.3", and fails with
\* VersionError on every other string.
C7_VersionBySuffix ==
    pc # "init" =>
        /\ ver_result = Ok(ThreeOne) <=> EndsWith(ver, << 51, 46, 49 >>)
        /\ ver_result = Ok(ThreeThree) <=> EndsWith(ver, << 51, 46, 51 >>)
        /\ ver_result.kind # "Ok" => ver_result.err = "VersionError"

\* C7 as the code has it: from_str returns v3.1 exactly for the strings with
\* a dot whose text before the first dot ends in '3' and whose text between
\* the first dot and the second dot (or the end) is "1", and v3.3 likewise
\* for "3"; every other string fails with VersionError, which carries these
\* two texts when there is a dot and the first text ends in '3', and
\* "Unknown" twice otherwise.
C7_VersionByTokens ==
    pc # "init" =>
        /\ ver_result = Ok(ThreeOne)
               <=> (HasMajorThree(ver) /\ MinorToken(ver) = << 49 >>)
        /\ ver_result = Ok(ThreeThree)
               <=> (HasMajorThree(ver) /\ MinorToken(ver) = << 51 >>)
        /\ ver_result.kind # "Ok" =>
               /\ ver_result.kind = "Err"
               /\ ver_result.err = "VersionError"
               /\ ver_result.val =
                      IF HasMajorThree(ver)
                      THEN << MajorToken(ver), MinorToken(ver) >>
                      ELSE << Unknown, Unknown >>

\* "3.1.", which does not end in "3.1", was parsed as v3.1.
C7_Witness ==
    /\ pc = "versioned"
    /\ ver = << 51, 46, 49, 46 >>
    /\ ver_result = Ok(ThreeOne)

\* C8: decrypting what encrypt returned for a byte string returns that
\* byte string, for either version.
C8_CipherRoundTrip ==
    pc = "decrypted" => decrypted = Ok(plain)

\* The payload region of a frame of the message m: the bytes between the
\* length field, or the 4-byte return-code word when m has a return code,
\* and the CRC
PayloadRegion(frame, m) ==
    SubSeq(frame, 17 + (IF IsSome(m.ret_code) THEN 4 ELSE 0), Len(frame) - 8)

\* C9: under version 3.3 the payload region of the encoded frame is the
\* AES-ECB ciphertext of the payload bytes when the command is DpQuery or
\* DpRefresh, and "3.3", the 12 digest bytes and the ciphertext for every
\* other command.
C9_CommandDiscrimination ==
    (pc # "created" /\ encoded.kind = "Ok" /\ mp.version = ThreeThree) =>
        PayloadRegion(encoded.val, mes) =
            IF mes.command \in {Some(DpQuery), Some(DpRefresh)}
            THEN symm_encrypt(mp.cipher.key, PayloadBytes(mes.payload).val).val
            ELSE as_bytes(ThreeThree)
                 \o TuyaCipher_md5(mp.cipher, PayloadBytes(mes.payload).val)
                 \o symm_encrypt(mp.cipher.key, PayloadBytes(mes.payload).val).val

\* C10: under version 3.3 encode returns the same result, frame or error,
\* for either value of the encrypt flag.
C10_EncryptFlagIrrelevant ==
    (pc # "created" /\ mp.version = ThreeThree)
        => encoded = encode(mp, mes, ~encrypt)

\* A Control message was encoded under version 3.3 with encrypt = false.
C10_Witness ==
    /\ pc = "encoded"
    /\ mp.version = ThreeThree
    /\ encrypt = FALSE
    /\ mes.command = Some(Control)
    /\ encoded.kind = "Ok"

\* The command a frame's command word stands for
CommandOfWord(w) ==
    IF \E c \in CommandType : w = << 0, 0, 0, c >> THEN Some(w[4]) ELSE None

\* One frame with the CRC of its own bytes was received and parsed.
ParsedOneFrame == pc = "parsed" /\ how = "wire" /\ Len(arg) = 1

\* C11: a frame with a return-code word, an empty payload region and a
\* correct CRC is parsed into exactly one message: the empty String, the
\* low byte of the return-code word, the command and the sequence number
\* of the frame header.
C11_EmptyReply ==
    (ParsedOneFrame /\ Len(arg[1].ret) = 4 /\ arg[1].region = <<>>) =>
        parsed = Ok(<< [payload |-> PayloadString(<<>>),
                        command |-> CommandOfWord(arg[1].cmd),
                        seq_nr |-> Some(FromBeBytes(arg[1].seq)),
                        ret_code |-> Some(arg[1].ret[4])] >>)

\* A heartbeat frame with return code 1 and sequence number 2 was parsed
\* under version 3.3.
C11_Witness ==
    /\ ParsedOneFrame
    /\ mp.version = ThreeThree
    /\ arg[1].region = <<>>
    /\ arg[1].ret = << 0, 0, 0, 1 >>
    /\ arg[1].seq = << 0, 0, 0, 2 >>
    /\ arg[1].cmd = << 0, 0, 0, HeartBeat >>
    /\ parsed.kind = "Ok"

\* The result of parsing the frame f with the command word of Control
ParsedAsControl(f) ==
    parse(mp, WireFrame(f.seq, << 0, 0, 0, Control >>, f.ret, f.region), TRUE)

\* C12: a frame whose command word is no value of CommandType is parsed as
\* the same frame with a known command is, but with command = None.
C12_UnknownCommand ==
    (ParsedOneFrame /\ CommandOfWord(arg[1].cmd) = None) =>
        IF ParsedAsControl(arg[1]).kind = "Ok"
        THEN parsed = Ok(<< [ParsedAsControl(arg[1]).val[1] EXCEPT !.command = None] >>)
        ELSE parsed = ParsedAsControl(arg[1])

\* A frame with command word 263 (00 00 01 07) and a device reply in its
\* payload region was parsed into a message without command.
C12_Witness ==
    /\ ParsedOneFrame
    /\ arg[1].cmd = << 0, 0, 1, 7 >>
    /\ arg[1].region = DeviceReply(mp, DataFormatError)
    /\ parsed.kind = "Ok"
    /\ parsed.val[1].command = None
    /\ parsed.val[1].payload = PayloadString(DataFormatError)

\* C13: encode of a message without a command fails with
\* CommandTypeMissing and returns no bytes, for either version and either
\* value of the encrypt flag.
C13_CommandTypeMissing ==
    (pc # "created" /\ mes.command = None) =>
        encoded = [kind |-> "Err", err |-> "CommandTypeMissing", val |-> <<>>]

\* A message without a command was handed to encode under 3.3 with
\* encrypt = true.
C13_Witness ==
    /\ pc = "encoded"
    /\ mes.command = None
    /\ mp.version = ThreeThree
    /\ encrypt = TRUE
    /\ encoded.kind = "Err"

\* The steps of the round-trip taken so far
StepsTaken == { steps[i] : i \in 1 .. Len(steps) }

\* C14: when the device answers a set request with an error reply (return
\* code 1 and the text "data format error") and the reply is parsed, set
\* returns an error.
C14_DeviceErrorsReachCaller ==
    (/\ pc = "returned"
     /\ op = "set"
     /\ buf = ErrorReply(mp)
     /\ "parse" \in StepsTaken) => result.kind = "Err"

\* C15: the steps of a round-trip are an initial part of open, setup,
\* encode, write, read, teardown, parse; the bytes written are the frame
\* encoded with encrypt = true; at most BufSize bytes are received;
\* teardown follows a read that has returned; parse runs on a transport
\* that was torn down and gets exactly the bytes received.
C15_RoundTripOrdering ==
    /\ Len(steps) <= Len(RoundTripOrder)
    /\ steps = Take(RoundTripOrder, Len(steps))
    /\ "write" \in StepsTaken =>
          (encrypt = TRUE /\ encoded = encode(mp, mes, TRUE))
    /\ sent # << >> => sent = encoded.val
    /\ IsSome(bts) => (Unwrap(bts) <= BufSize /\ Len(buf) = Unwrap(bts))
    /\ "teardown" \in StepsTaken => (IsSome(bts) /\ Unwrap(bts) > 0)
    /\ "parse" \in StepsTaken =>
          /\ tt = "torn_down"
          /\ parsed \in { parse(mp, buf, checked) : checked \in BOOLEAN }

\* A get went through all seven steps, received a full buffer and
\* returned what parse made of it.
C15_Witness ==
    /\ pc = "returned"
    /\ op = "get"
    /\ steps = RoundTripOrder
    /\ bts = Some(BufSize)
    /\ result = parsed

\* C16: a round-trip whose read returned 0 bytes fails with BadTcpRead on
\* the TCP transport and with BadUdpRead on the UDP transport; parse was
\* not invoked and no messages are returned.
C16_ZeroByteRead ==
    (pc = "returned" /\ bts = Some(0)) =>
        /\ result = (IF transport = "TCP"
                     THEN [kind |-> "Err", err |-> "BadTcpRead", val |-> << >>]
                     ELSE [kind |-> "Err", err |-> "BadUdpRead", val |-> << >>])
        /\ "parse" \notin StepsTaken
        /\ parsed = Nothing

\* A round-trip over UDP read 0 bytes and returned.
C16_Witness ==
    /\ pc = "returned"
    /\ transport = "UDP"
    /\ bts = Some(0)
    /\ result.err = "BadUdpRead"

\* C17 as stated: a round-trip that opened a transport has torn it down
\* by the time it returns.
C17_TornDownOnReturn ==
    (pc = "returned" /\ tt # "none") => tt = "torn_down"

\* C17: a round-trip that opened a transport has dropped it by the time it
\* returns, and not before; the teardown step has run exactly when the
\* read returned at least one byte, and the transport is torn down only
\* by that step.
C17_ReleasedOnReturn ==
    /\ pc = "returned" =>
          /\ tt # "none" => released
          /\ "teardown" \in StepsTaken <=> (IsSome(bts) /\ Unwrap(bts) > 0)
    /\ pc # "returned" => ~released
    /\ tt = "torn_down" => "teardown" \in StepsTaken

\* A round-trip returned after a read of 0 bytes: its transport was set
\* up, was not torn down, and is dropped.
C17_Witness ==
    /\ pc = "returned"
    /\ bts = Some(0)
    /\ tt = "set_up"
    /\ "teardown" \notin StepsTaken
    /\ released

\* The CRC word of the last frame of the buffer
LastCrcWord == SubSeq(buf, Len(buf) - 7, Len(buf) - 4)

\* C18: in a buffer of two frames whose first frame parses on its own, the
\* second frame is accepted only if its CRC word is the CRC-32 of its own
\* bytes from its prefix magic through its payload region, and a second
\* frame whose CRC word differs from that makes parse fail with CRCError.
C18_CrcCoversOwnFrame ==
    (/\ pc = "parsed"
     /\ how = "wire"
     /\ Len(arg) = 2
     /\ parse(mp, WireFrame(arg[1].seq, arg[1].cmd, arg[1].ret, arg[1].region),
              TRUE).kind = "Ok") =>
        /\ parsed.kind = "Ok" =>
              LastCrcWord = crc(WireBody(arg[2].seq, arg[2].cmd, arg[2].ret, arg[2].region))
        /\ LastCrcWord # crc(WireBody(arg[2].seq, arg[2].cmd, arg[2].ret, arg[2].region)) =>
              parsed = [kind |-> "Err", err |-> "CRCError", val |-> << >>]

\* C19: in every frame produced by encode the value of the length field
\* is the number of bytes that follow the length field, and when the
\* message has a ret_code the four bytes after the length field are the
\* return-code word 00 00 00 ret_code.
C19_LengthFieldConsistency ==
    (pc # "created" /\ encoded.kind = "Ok") =>
        /\ FromBeBytes(SubSeq(encoded.val, 13, 16)) = Len(encoded.val) - 16
        /\ IsSome(mes.ret_code) =>
              SubSeq(encoded.val, 17, 20) = << 0, 0, 0, Unwrap(mes.ret_code) >>

\* The four bytes that follow the length field of the first frame
WordAfterLength == SubSeq(buf, 17, 20)

\* C20, for the frames that parse accepts: such a frame is reported with
\* ret_code = Some(b) and the payload of the bytes from offset 20 to the
\* CRC exactly when the four bytes after the length field are 00 00 00 b,
\* and with ret_code = None and the payload of the bytes from offset 16 to
\* the CRC otherwise.
C20_DetectionInAcceptedFrames ==
    (ParsedOneFrame /\ parsed.kind = "Ok") =>
        /\ Len(parsed.val) = 1
        /\ IF WordAfterLength[1] = 0 /\ WordAfterLength[2] = 0 /\ WordAfterLength[3] = 0
           THEN /\ parsed.val[1].ret_code = Some(WordAfterLength[4])
                /\ parsed.val[1].payload =
                      try_decrypt(mp, SubSeq(buf, 21, Len(buf) - 8)).val
           ELSE /\ parsed.val[1].ret_code = None
                /\ parsed.val[1].payload =
                      try_decrypt(mp, SubSeq(buf, 17, Len(buf) - 8)).val
        /\ (arg[1].ret = << >> /\ parsed.val[1].ret_code = None) =>
              ~(WordAfterLength[1] = 0 /\ WordAfterLength[2] = 0 /\ WordAfterLength[3] = 0)

\* C20: parse reports ret_code = Some(b) for a frame exactly when the four
\* bytes that follow its length field are 00 00 00 b.  Frames whose
\* payload region is the version tag and one more byte are left aside.
C20_ReturnCodeReported ==
    (ParsedOneFrame /\ arg[1].region # as_bytes(mp.version) \o << 120 >>) =>
        ((WordAfterLength[1] = 0 /\ WordAfterLength[2] = 0 /\ WordAfterLength[3] = 0)
         <=> (/\ parsed.kind = "Ok"
              /\ Len(parsed.val) = 1
              /\ parsed.val[1].ret_code = Some(WordAfterLength[4])))

\* How often the step s was taken in the round-trip
TimesTaken(s) == Cardinality({ i \in 1 .. Len(steps) : steps[i] = s })

C22_ParseIsTotal ==
    (pc = "parsed" /\ how = "wire") => parsed.kind \in { "Ok", "Err" }

\* C23: the four bytes at offset 4 of an encoded frame are the seq_nr of
\* the message as a big-endian word, 0 when seq_nr is None, so that a
\* message with seq_nr None and the same message with seq_nr Some(0) have
\* the same frame; every message parse returns for the frame has seq_nr =
\* Some(v) with v the value of that word, never None.
C23_SequenceNumberOnWire ==
    (pc # "created" /\ encoded.kind = "Ok") =>
        /\ SubSeq(encoded.val, 5, 8) =
              ToBeBytes(IF IsSome(mes.seq_nr) THEN Unwrap(mes.seq_nr) ELSE 0)
        /\ mes.seq_nr = None =>
              encoded = encode(mp, [mes EXCEPT !.seq_nr = Some(0)], encrypt)
        /\ (pc = "parsed" /\ parsed.kind = "Ok") =>
              \A i \in 1 .. Len(parsed.val) :
                  /\ parsed.val[i].seq_nr = Some(FromBeBytes(SubSeq(buf, 5, 8)))
                  /\ mes.seq_nr = None => parsed.val[i].seq_nr = Some(0)

\* A message with seq_nr None was encoded under 3.3 and the frame was
\* parsed into a message with seq_nr Some(0).
C23_Witness ==
    /\ pc = "parsed"
    /\ mp.version = ThreeThree
    /\ mes.seq_nr = None
    /\ SubSeq(buf, 5, 8) = << 0, 0, 0, 0 >>
    /\ parsed.kind = "Ok"
    /\ Len(parsed.val) = 1
    /\ parsed.val[1].seq_nr = Some(0)

====
